---- MODULE Spec2Model ----
(***************************************************************************)
(* Postmaster Insights (server.js, postmaster-api.js): the credential      *)
(* lifecycle of one browser session under concurrent requests, the         *)
(* response cache, the nearest-stat resolver and the historical series     *)
(* builder.                                                                *)
(*                                                                         *)
(* Session state.  server.js:26-45 installs express-session with a         *)
(* MongoStore (resave: false, saveUninitialized: false).  For every        *)
(* request the middleware reads the session document from the store and    *)
(* builds a fresh req.session object from it; assignments to req.session   *)
(* change that request's object only, and reach the store when the         *)
(* request calls req.session.save(), or at the end of the response if the  *)
(* object differs from what was loaded.  req.session.destroy() deletes     *)
(* the request's object and the store document.  The model therefore       *)
(* keeps the store document (store) and one session object per request     *)
(* (sess[r]).                                                              *)
(***************************************************************************)
EXTENDS Integers, Sequences, FiniteSets, TLC

\* ------------------------------------------------------------ bounds
NumReq == 2

\* Every token is issued to a request (or is the one a logged-in session
\* starts with), so no run needs more than NumReq + 1 of them.
MaxTok == NumReq + 1

\* The largest daysBack a call is made with.
MaxHorizon == 4

\* The longest date range asked for, in days.
MaxDays == 3

\* The most delivery-error entries and IP-reputation entries of a raw stat.
MaxErrs == 2
MaxIps == 2

\* The requests to the cached route in progress at once, and the moves of
\* the clock.
NumCacheReq == 2
MaxTicks == 2

\* ------------------------------------------------------------ state
VARIABLES
  store,        \* the session document in the MongoStore
  sess,         \* sess[r]: request r's req.session object
  orig,         \* orig[r]: the document r loaded (express-session's saved hash)
  pc,           \* pc[r]: where request r stands
  route,        \* route[r]: the route request r was sent to
  issued,       \* number of access tokens the authorisation server has issued
  expiring,     \* tokens for which isTokenExpiring() is true by now
  sent,         \* sent[r]: the token r called refreshAccessToken with (0: no call)
  cred,         \* cred[r]: the credential of res.locals.client when next() ran
  outcome,      \* outcome[r]: how loginRequired ended for r
  seenInFlight, \* seenInFlight[r]: the refresh calls in flight when r found its credential expiring
  invalidated,  \* a refresh failure destroyed the session and no code exchange stored a credential since
  afterInval,   \* afterInval[r]: r arrived while invalidated
  loggedOut     \* a logout destroyed the session and no code exchange stored a credential since

authVars == <<store, sess, orig, pc, route, issued, expiring, sent, cred,
              outcome, seenInFlight, invalidated, afterInval, loggedOut>>

\* findNearestAvailableStat (one call)
VARIABLES
  today,        \* moment() at the call
  daysBack,     \* the daysBack argument
  nUp,          \* nUp[d]: what the upstream answers for day d
  nPc,          \* "start", "loop", "await", "done"
  nI,           \* the loop variable i
  nFetched,     \* the days _getDailyStats was called for, in call order
  nResult       \* the value returned

nearVars == <<today, daysBack, nUp, nPc, nI, nFetched, nResult>>

\* getHistoricalStats / processSingleDomainStats (one call)
VARIABLES
  hMode,        \* "series": getHistoricalStats, "summary": processSingleDomainStats
  hStart,       \* startDateStr
  hEnd,         \* endDateStr
  hUp,          \* hUp[k]: what the upstream answers for the k-th day from the start date
  hPc,          \* "start", "loop", "await", "done"
  hDates,       \* dateList
  hIdx,         \* position of the for-of loop in dateList
  chartData,    \* the five arrays of getHistoricalStats
  dailyStats,   \* domainStats.daily_stats of processSingleDomainStats
  hFetched,     \* the days _getDailyStats was called for, in call order
  hOutcome      \* what the route handler answered

seriesVars == <<hMode, hStart, hEnd, hUp, hPc, hDates, hIdx, chartData,
                dailyStats, hFetched, hOutcome>>

\* GET /api/custom_domain_data/:domain_name and the response cache
VARIABLES
  apiCache,     \* the Map: cache key -> {data, timestamp}
  now,          \* Date.now(), in ms since the server started
  ticks,        \* how often the clock has moved
  upVer,        \* the state of the upstream data
  cPc,          \* cPc[r]: "idle" or "computing" (awaiting processSingleDomainStats)
  cArgs,        \* cArgs[r]: <<domain_name, start_date, end_date>>
  cFound,       \* cFound[r]: what r's lookup found, "absent" or "stale"
  last          \* the latest response of the route: its origin, the request's
              \* parameters, key and body

cacheVars == <<apiCache, now, ticks, upVer, cPc, cArgs, cFound, last>>

\* extractMetrics (one call)
VARIABLES
  mRaw,         \* the raw daily stats passed in
  mPc,          \* "raw", "done"
  mOut          \* the object returned

metricVars == <<mRaw, mPc, mOut>>

\* GET /api/stat/:domain and GET /api/historical_stats/:domain
VARIABLES
  dPc,          \* dPc[r]: "idle" or "fetching" (awaiting the PostmasterToolsClient call)
  dRoute,       \* dRoute[r]: "stat" or "historical_stats"
  dArgs,        \* dArgs[r]: <<domain>> or <<domain, start_date, end_date>>
  direct        \* the latest response of these routes, and when it was sent

directVars == <<dPc, dRoute, dArgs, direct>>

vars == <<authVars, nearVars, seriesVars, cacheVars, metricVars, directVars>>

Req == 1..NumReq
NoTok == 0
Tok == 1..MaxTok

Routes == {"api", "upload", "loginpage", "callback", "logout"}

\* The session document: client_secret_json, tokens, isRefreshing, flash_message.
NoSession == [live |-> FALSE, secret |-> "none", tokens |-> NoTok,
              isRefreshing |-> FALSE, flash |-> "none"]
NewSession == [NoSession EXCEPT !.live = TRUE]
LoggedIn == [live |-> TRUE, secret |-> "ok", tokens |-> 1,
             isRefreshing |-> FALSE, flash |-> "none"]

\* express-session's per-request load: the stored document, or a new empty session.
LoadSession(doc) == IF doc.live THEN doc ELSE NewSession

\* getOauth2Client: null when the session holds no client_secret_json; a
\* TypeError when the stored JSON has no web.redirect_uris to call find on.
getOauth2Client(s) ==
  IF s.secret = "none" THEN "null"
  ELSE IF s.secret = "unusable" THEN "throws"
  ELSE "client"

isTokenExpiringAlways(t) == TRUE

\* oauth2Client.isTokenExpiring() for the credentials just set from the session.
isTokenExpiring(t) == t \in expiring

\* The refresh calls in flight.
InFlight == {q \in Req : pc[q] = "refreshing"}

\* ------------------------------------------------------------ calendar

\* A calendar day is <<year, month, day>>; moment's add(1, 'days'),
\* subtract(i, 'days'), isSameOrBefore and format work on such days.
IsLeap(y) == (y % 4 = 0 /\ y % 100 # 0) \/ y % 400 = 0

DaysInMonth(y, m) ==
  IF m = 2 THEN (IF IsLeap(y) THEN 29 ELSE 28)
  ELSE IF m \in {4, 6, 9, 11} THEN 30 ELSE 31

NextDayNoLeap(t) ==
  IF t[3] < (IF t[2] = 2 THEN 28 ELSE DaysInMonth(t[1], t[2])) THEN <<t[1], t[2], t[3] + 1>>
  ELSE IF t[2] < 12 THEN <<t[1], t[2] + 1, 1>>
  ELSE <<t[1] + 1, 1, 1>>

NextDay(t) ==
  IF t[3] < DaysInMonth(t[1], t[2]) THEN <<t[1], t[2], t[3] + 1>>
  ELSE IF t[2] < 12 THEN <<t[1], t[2] + 1, 1>>
  ELSE <<t[1] + 1, 1, 1>>

PrevDay(t) ==
  IF t[3] > 1 THEN <<t[1], t[2], t[3] - 1>>
  ELSE IF t[2] > 1 THEN <<t[1], t[2] - 1, DaysInMonth(t[1], t[2] - 1)>>
  ELSE <<t[1] - 1, 12, 31>>

RECURSIVE AddDays(_, _)
AddDays(t, k) ==
  IF k = 0 THEN t
  ELSE IF k > 0 THEN AddDays(NextDay(t), k - 1)
  ELSE AddDays(PrevDay(t), k + 1)

\* m.isSameOrBefore(e) on two valid days.
SameOrBefore(a, b) ==
  \/ a[1] < b[1]
  \/ a[1] = b[1] /\ a[2] < b[2]
  \/ a[1] = b[1] /\ a[2] = b[2] /\ a[3] <= b[3]

DigitChar == <<"0", "1", "2", "3", "4", "5", "6", "7", "8", "9">>

Digit(n) == DigitChar[n + 1]

\* format('YYYY-MM-DD'): the ten characters of a day.
FormatDate(t) ==
  << Digit(t[1] \div 1000), Digit((t[1] \div 100) % 10),
     Digit((t[1] \div 10) % 10), Digit(t[1] % 10), "-",
     Digit(t[2] \div 10), Digit(t[2] % 10), "-",
     Digit(t[3] \div 10), Digit(t[3] % 10) >>

DigitVal(c) == CHOOSE n \in 0..9 : DigitChar[n + 1] = c

Invalid == <<0, 0, 0>>

\* moment(s, 'YYYY-MM-DD') for a string of the shape dddd-dd-dd: the day, or
\* an invalid moment when the calendar has no such day.
ParseDate(s) ==
  LET y == 1000 * DigitVal(s[1]) + 100 * DigitVal(s[2]) + 10 * DigitVal(s[3]) + DigitVal(s[4])
      m == 10 * DigitVal(s[6]) + DigitVal(s[7])
      d == 10 * DigitVal(s[9]) + DigitVal(s[10])
  IN IF m \in 1..12 /\ d >= 1 /\ d <= DaysInMonth(y, m) THEN <<y, m, d>> ELSE Invalid

\* ------------------------------------------------------------ stats fetcher

\* What the upstream trafficStats.get does for a day: data, an error with
\* code 404 or 400, or any other failure.
Resp == {"data", "404", "400", "error"}

null == [present |-> FALSE]

GetDailyStatsNotFoundOnly(d, resp) ==
  IF resp \in {"404", "400"} THEN [present |-> FALSE] ELSE [present |-> TRUE, day |-> d]

\* _getDailyStats: res.data, or null for every error.
GetDailyStats(d, resp) ==
  IF resp = "data" THEN [present |-> TRUE, day |-> d]
  ELSE IF resp \in {"404", "400"} THEN null
  ELSE null

\* ------------------------------------------------------------ normalizer

\* Ratios are counted in units of 0.00001, percentages in units of 0.01;
\* NoNumber stands for a field that is missing or not a number.
NoNumber == -1

\* parseFloat((value * 100).toFixed(2))
Percent(ratio) == (ratio + 5) \div 10

\* _safeGetFraction
SafeGetFraction(value) == IF value # NoNumber THEN Percent(value) ELSE 0

\* (x || 'NONE').toUpperCase() on the category strings the model uses.
UpperOrNone(c) ==
  IF c = "" THEN "NONE"
  ELSE IF c = "high" THEN "HIGH"
  ELSE IF c = "low" THEN "LOW"
  ELSE c

\* _processIpReputations: the reputation of the first entry that has a sample
\* IP, looked for while trueIpReputation is still 'NONE'.
RECURSIVE TrueIpReputation(_, _)
TrueIpReputation(reps, acc) ==
  IF reps = <<>> THEN acc
  ELSE TrueIpReputation(Tail(reps),
         IF Head(reps).hasSample /\ acc = "NONE"
         THEN UpperOrNone(Head(reps).reputation) ELSE acc)

SumRatiosFirst(errs) == IF errs = <<>> THEN 0 ELSE Head(errs)

RECURSIVE SumRatios(_)
SumRatios(errs) == IF errs = <<>> THEN 0 ELSE Head(errs) + SumRatios(Tail(errs))

\* extractMetrics
ExtractMetrics(stats, date) ==
  [ date |-> date,
    spam_rate |-> SafeGetFraction(stats.spamRatio),
    delivery_errors_rate |-> Percent(SumRatios(stats.deliveryErrors)),
    user_reported_spam_rate |-> SafeGetFraction(stats.userReportedSpamRatio),
    overall_reputation |-> UpperOrNone(stats.domainReputation),
    true_ip_reputation |-> TrueIpReputation(stats.ipReputations, "NONE") ]

\* The raw daily stats the upstream answers with.
RawStats ==
  << [ domainReputation |-> "HIGH", spamRatio |-> 5340, userReportedSpamRatio |-> 120,
       deliveryErrors |-> <<1000, 2504>>,
       ipReputations |-> << [reputation |-> "MEDIUM", hasSample |-> FALSE],
                            [reputation |-> "low", hasSample |-> TRUE] >> ],
     [ domainReputation |-> "", spamRatio |-> NoNumber, userReportedSpamRatio |-> NoNumber,
       deliveryErrors |-> <<>>,
       ipReputations |-> <<>> ],
     [ domainReputation |-> "REPUTATION_CATEGORY_UNSPECIFIED", spamRatio |-> 100000,
       userReportedSpamRatio |-> 0,
       deliveryErrors |-> <<60000, 60000>>,
       ipReputations |-> << [reputation |-> "", hasSample |-> TRUE],
                            [reputation |-> "BAD", hasSample |-> TRUE] >> ] >>

\* A call of extractMetrics on raw stats that are present.
Normalize ==
  /\ mPc = "raw"
  /\ mOut' = ExtractMetrics(mRaw, "")
  /\ mPc' = "done"
  /\ UNCHANGED mRaw

\* ------------------------------------------------------------ series builder

Nul == [kind |-> "null", v |-> 0]
Undefined == [kind |-> "undefined", v |-> 0]
Num(n) == [kind |-> "number", v |-> n]

\* repMap[category]
RepMap(c) ==
  IF c = "HIGH" THEN Num(4)
  ELSE IF c = "MEDIUM" THEN Num(3)
  ELSE IF c = "LOW" THEN Num(2)
  ELSE IF c = "BAD" THEN Num(1)
  ELSE Undefined

\* category === 'NONE' ? null : repMap[category]
RepOrdinal(c) == IF c = "NONE" THEN Nul ELSE RepMap(c)

\* What the upstream answers for a day: an error, or one of the raw stats.
UpAnswers == {"404", "400", "error"} \cup {"raw1", "raw2", "raw3"}

RespOf(a) == IF a \in {"raw1", "raw2", "raw3"} THEN "data" ELSE a

RawOf(a) == IF a = "raw1" THEN RawStats[1] ELSE IF a = "raw3" THEN RawStats[3] ELSE RawStats[2]

\* for (m = startDate; m.isSameOrBefore(endDate); m.add(1, 'days')) dateList.push(m.toDate());
\* the comparison is false when either moment is invalid.
RECURSIVE DatesUpTo(_, _)
DatesUpTo(m, e) ==
  IF m # Invalid /\ e # Invalid /\ SameOrBefore(m, e)
  THEN <<m>> \o DatesUpTo(NextDay(m), e)
  ELSE <<>>

DateListDoWhile(startDate, endDate) ==
  <<startDate>> \o DatesUpTo(NextDay(startDate), endDate)

\* dateList for moment(startDate) and moment(endDate)
DateList(startDate, endDate) == DatesUpTo(startDate, endDate)

EmptyChart == [labels |-> <<>>, userReportedSpam |-> <<>>, domainReputation |-> <<>>,
               ipReputation |-> <<>>, deliveryErrors |-> <<>>]

PushMetricsSpamRate(cd, metrics) ==
  [cd EXCEPT !.userReportedSpam = Append(@, Num(metrics.spam_rate)),
             !.deliveryErrors = Append(@, Num(metrics.delivery_errors_rate)),
             !.domainReputation = Append(@, RepOrdinal(metrics.overall_reputation)),
             !.ipReputation = Append(@, RepOrdinal(metrics.true_ip_reputation))]

\* The four pushes for a day with stats.
PushMetrics(cd, metrics) ==
  [cd EXCEPT !.userReportedSpam = Append(@, Num(metrics.user_reported_spam_rate)),
             !.deliveryErrors = Append(@, Num(metrics.delivery_errors_rate)),
             !.domainReputation = Append(@, RepOrdinal(metrics.overall_reputation)),
             !.ipReputation = Append(@, RepOrdinal(metrics.true_ip_reputation))]

\* The four pushes for a day without stats.
PushAbsentThree(cd) ==
  [cd EXCEPT !.userReportedSpam = Append(@, Nul),
             !.domainReputation = Append(@, Nul),
             !.ipReputation = Append(@, Nul)]

PushAbsent(cd) ==
  [cd EXCEPT !.userReportedSpam = Append(@, Nul),
             !.domainReputation = Append(@, Nul),
             !.ipReputation = Append(@, Nul),
             !.deliveryErrors = Append(@, Nul)]

\* Both functions start alike: parse the two strings, build dateList.
HistStart ==
  /\ hPc = "start"
  /\ hDates' = DateList(ParseDate(hStart), ParseDate(hEnd))
  /\ hIdx' = 1
  /\ hPc' = "loop"
  /\ UNCHANGED <<hMode, hStart, hEnd, hUp, chartData, dailyStats, hFetched, hOutcome>>

\* getHistoricalStats, the for-of loop up to the await: push the label, call
\* _getDailyStats; after the last date the handler answers with chartData.
SeriesFetch ==
  /\ hPc = "loop"
  /\ hMode = "series"
  /\ IF hIdx <= Len(hDates)
     THEN /\ chartData' = [chartData EXCEPT !.labels = Append(@, FormatDate(hDates[hIdx]))]
          /\ hFetched' = Append(hFetched, hDates[hIdx])
          /\ hPc' = "await"
          /\ UNCHANGED hOutcome
     ELSE /\ hOutcome' = "ok"
          /\ hPc' = "done"
          /\ UNCHANGED <<chartData, hFetched>>
  /\ UNCHANGED <<hMode, hStart, hEnd, hUp, hDates, hIdx, dailyStats>>

\* getHistoricalStats, the await resumes: push the day's values or four nulls.
SeriesResume ==
  /\ hPc = "await"
  /\ hMode = "series"
  /\ LET d == hDates[hIdx]
         stats == GetDailyStats(d, RespOf(hUp[hIdx]))
     IN chartData' = IF stats.present
                     THEN PushMetrics(chartData, ExtractMetrics(RawOf(hUp[hIdx]), ""))
                     ELSE PushAbsent(chartData)
  /\ hIdx' = hIdx + 1
  /\ hPc' = "loop"
  /\ UNCHANGED <<hMode, hStart, hEnd, hUp, hDates, dailyStats, hFetched, hOutcome>>

\* processSingleDomainStats, the for-of loop up to the await.
SummaryFetch ==
  /\ hPc = "loop"
  /\ hMode = "summary"
  /\ IF hIdx <= Len(hDates)
     THEN /\ hFetched' = Append(hFetched, hDates[hIdx])
          /\ hPc' = "await"
          /\ UNCHANGED hOutcome
     ELSE /\ hOutcome' = "ok"
          /\ hPc' = "done"
          /\ UNCHANGED hFetched
  /\ UNCHANGED <<hMode, hStart, hEnd, hUp, hDates, hIdx, chartData, dailyStats>>

\* processSingleDomainStats, the await resumes: a day with stats gets an
\* entry of daily_stats under its formatted date.
SummaryResume ==
  /\ hPc = "await"
  /\ hMode = "summary"
  /\ LET d == hDates[hIdx]
         stats == GetDailyStats(d, RespOf(hUp[hIdx]))
         key == FormatDate(d)
     IN dailyStats' = IF stats.present
                      THEN [k \in DOMAIN dailyStats \cup {key} |->
                              IF k = key THEN ExtractMetrics(RawOf(hUp[hIdx]), key)
                              ELSE dailyStats[k]]
                      ELSE dailyStats
  /\ hIdx' = hIdx + 1
  /\ hPc' = "loop"
  /\ UNCHANGED <<hMode, hStart, hEnd, hUp, hDates, chartData, hFetched, hOutcome>>

\* After the series of a range, the summary of the same domain and range is
\* asked for (GET /api/custom_domain_data after GET /api/historical_stats),
\* the upstream data being the same.
SummaryAfterSeries ==
  /\ hPc = "done"
  /\ hMode = "series"
  /\ hMode' = "summary"
  /\ hPc' = "start"
  /\ hDates' = <<>>
  /\ hIdx' = 0
  /\ hFetched' = <<>>
  /\ hOutcome' = "none"
  /\ UNCHANGED <<hStart, hEnd, hUp, chartData, dailyStats>>

\* ------------------------------------------------------------ response cache

CACHE_DURATION_MS == 900000

CReq == 1..NumCacheReq

\* `${domain_name}-${start_date}-${end_date}` on strings as character sequences.
CacheKey(args) == args[1] \o <<"-">> \o args[2] \o <<"-">> \o args[3]

NoEntry == [has |-> FALSE, data |-> <<>>, timestamp |-> 0]

\* apiCache.get(key), NoEntry when apiCache.has(key) is false.
CacheGet(key) == IF key \in DOMAIN apiCache THEN apiCache[key] ELSE NoEntry

\* Date.now() - timestamp < CACHE_DURATION_MS
IsFreshInclusive(age) == age <= CACHE_DURATION_MS

IsFresh(age) == age < CACHE_DURATION_MS

\* What processSingleDomainStats returns for its arguments and the upstream data.
DomainData(args, ver) == <<args[1], args[2], args[3], ver>>

NoResponse == [kind |-> "none", args |-> <<>>, key |-> <<>>, payload |-> <<>>]

\* The handler up to its first await: answer from a fresh entry, or call
\* processSingleDomainStats.
CacheLookup(r, args) ==
  /\ cPc[r] = "idle"
  /\ \A q \in CReq : q < r => cPc[q] # "idle"
  /\ LET key == CacheKey(args)
         e == CacheGet(key)
     IN IF e.has /\ IsFresh(now - e.timestamp)
        THEN /\ last' = [kind |-> "hit", args |-> args, key |-> key, payload |-> e.data]
             /\ UNCHANGED <<cPc, cArgs, cFound>>
        ELSE /\ cPc' = [cPc EXCEPT ![r] = "computing"]
             /\ cArgs' = [cArgs EXCEPT ![r] = args]
             /\ cFound' = [cFound EXCEPT ![r] = IF e.has THEN "stale" ELSE "absent"]
             /\ UNCHANGED last
  /\ UNCHANGED <<apiCache, now, ticks, upVer>>

\* processSingleDomainStats has returned: store the result with the time of
\* now, answer with it.
CacheStore(r) ==
  /\ cPc[r] = "computing"
  /\ LET key == CacheKey(cArgs[r])
         e == [has |-> TRUE, data |-> DomainData(cArgs[r], upVer), timestamp |-> now]
     IN /\ apiCache' = [k \in DOMAIN apiCache \cup {key} |->
                          IF k = key THEN e ELSE apiCache[k]]
        /\ last' = [kind |-> "store", args |-> cArgs[r], key |-> key,
                     payload |-> e.data]
  /\ cPc' = [cPc EXCEPT ![r] = "idle"]
  /\ cArgs' = [cArgs EXCEPT ![r] = <<>>]
  /\ cFound' = [cFound EXCEPT ![r] = "none"]
  /\ UNCHANGED <<now, ticks, upVer>>

\* Time passes.
Tick(d) ==
  /\ ticks < MaxTicks
  /\ ticks' = ticks + 1
  /\ now' = now + d
  /\ UNCHANGED <<apiCache, upVer, cPc, cArgs, cFound, last>>

\* The upstream data changes.
UpstreamChange(v) ==
  /\ v # upVer
  /\ upVer' = v
  /\ UNCHANGED <<apiCache, now, ticks, cPc, cArgs, cFound, last>>

\* ------------------------------------------------------------ uncached routes

NoDirect == [route |-> "none", args |-> <<>>, at |-> 0, payload |-> <<>>]

\* What the two routes answer for their arguments and the upstream data.
DirectData(rt, args, ver) == <<rt, args, ver>>

\* Either handler up to its await: the PostmasterToolsClient is called, which
\* fetches days from the upstream; apiCache is not consulted.
DirectFetch(r, rt, args) ==
  /\ dPc[r] = "idle"
  /\ \A q \in CReq : q < r => dPc[q] # "idle"
  /\ dPc' = [dPc EXCEPT ![r] = "fetching"]
  /\ dRoute' = [dRoute EXCEPT ![r] = rt]
  /\ dArgs' = [dArgs EXCEPT ![r] = args]
  /\ UNCHANGED <<direct, cacheVars>>

\* The call has returned: res.json with its result; nothing is stored.
DirectAnswer(r) ==
  /\ dPc[r] = "fetching"
  /\ direct' = [route |-> dRoute[r], args |-> dArgs[r], at |-> now,
                payload |-> DirectData(dRoute[r], dArgs[r], upVer)]
  /\ dPc' = [dPc EXCEPT ![r] = "idle"]
  /\ dRoute' = [dRoute EXCEPT ![r] = "none"]
  /\ dArgs' = [dArgs EXCEPT ![r] = <<>>]
  /\ UNCHANGED cacheVars

\* ------------------------------------------------------------ nearest stat

\* The loop of findNearestAvailableStat: for (i = 2; i <= daysBack; i++).
LoopFrom == 2

NextOffsetSkipping(i) == i + 2

NextOffset(i) == i + 1

LoopContinuesStrict(i, h) == i < h

LoopContinues(i, h) == i <= h

NearestStart ==
  /\ nPc = "start"
  /\ nI' = LoopFrom
  /\ nPc' = "loop"
  /\ UNCHANGED <<today, daysBack, nUp, nFetched, nResult>>

\* The loop test, and the call of _getDailyStats for today - i days.
NearestFetch ==
  /\ nPc = "loop"
  /\ IF LoopContinues(nI, daysBack)
     THEN /\ nFetched' = Append(nFetched, AddDays(today, -nI))
          /\ nPc' = "await"
          /\ UNCHANGED nResult
     ELSE /\ nResult' = null
          /\ nPc' = "done"
          /\ UNCHANGED nFetched
  /\ UNCHANGED <<today, daysBack, nUp, nI>>

\* The await resumes: a present day is returned with its date field set.
NearestResume ==
  /\ nPc = "await"
  /\ LET d == AddDays(today, -nI)
         stats == GetDailyStats(d, nUp[d])
     IN IF stats.present
        THEN /\ nResult' = [present |-> TRUE, day |-> stats.day, date |-> FormatDate(d)]
             /\ nPc' = "done"
             /\ UNCHANGED nI
        ELSE /\ nI' = NextOffset(nI)
             /\ nPc' = "loop"
             /\ UNCHANGED nResult
  /\ UNCHANGED <<today, daysBack, nUp, nFetched>>

\* ------------------------------------------------------------ requests

\* The request's objects are dropped once its response has been sent.
Finished(f, r) == [f EXCEPT ![r] = NoSession]

\* Request r is over.
Retire(r) ==
  /\ pc' = [pc EXCEPT ![r] = "done"]
  /\ route' = [route EXCEPT ![r] = "api"]

\* The response of r ends with session object s: express-session saves s,
\* asynchronously, when it differs from what was loaded or last saved
\* (resave: false); a destroyed session is not saved.
EndResponse(r, s) ==
  IF s.live /\ s # orig[r]
  THEN /\ pc' = [pc EXCEPT ![r] = "ending"]
       /\ sess' = [sess EXCEPT ![r] = s]
       /\ orig' = Finished(orig, r)
       /\ UNCHANGED route
  ELSE /\ Retire(r)
       /\ sess' = Finished(sess, r)
       /\ orig' = Finished(orig, r)

\* A request arrives on route rt: the session middleware loads its session.
\* Requests are numbered in their order of arrival.
Load(r, rt) ==
  /\ pc[r] = "idle"
  /\ \A q \in Req : q < r => pc[q] # "idle"
  /\ pc' = [pc EXCEPT ![r] = "loaded"]
  /\ route' = [route EXCEPT ![r] = rt]
  /\ sess' = [sess EXCEPT ![r] = LoadSession(store)]
  /\ orig' = [orig EXCEPT ![r] = LoadSession(store)]
  /\ afterInval' = [afterInval EXCEPT ![r] = invalidated]
  /\ UNCHANGED <<store, issued, expiring, sent, cred, outcome, invalidated, seenInFlight, loggedOut>>

\* loginRequired, from its entry to its first suspension point.  An exception
\* of getOauth2Client leaves the middleware and express answers with 500.
loginRequired(r) ==
  /\ pc[r] = "loaded"
  /\ route[r] = "api"
  /\ LET s == sess[r] IN
     IF s.tokens = NoTok THEN
       /\ outcome' = [outcome EXCEPT ![r] = "AuthRequired"]
       /\ EndResponse(r, s)
       /\ UNCHANGED <<sent, cred, seenInFlight>>
     ELSE IF getOauth2Client(s) = "null" THEN
       /\ outcome' = [outcome EXCEPT ![r] = "ClientMisconfigured"]
       /\ EndResponse(r, s)
       /\ UNCHANGED <<sent, cred, seenInFlight>>
     ELSE IF getOauth2Client(s) = "throws" THEN
       /\ outcome' = [outcome EXCEPT ![r] = "Error500"]
       /\ EndResponse(r, s)
       /\ UNCHANGED <<sent, cred, seenInFlight>>
     ELSE IF ~isTokenExpiring(s.tokens) THEN
       /\ outcome' = [outcome EXCEPT ![r] = "next"]
       /\ cred' = [cred EXCEPT ![r] = s.tokens]
       /\ EndResponse(r, s)
       /\ UNCHANGED <<sent, seenInFlight>>
     ELSE IF s.isRefreshing THEN
       /\ pc' = [pc EXCEPT ![r] = "waiting"]
       /\ seenInFlight' = [seenInFlight EXCEPT ![r] = InFlight]
       /\ UNCHANGED <<sess, orig, route, sent, cred, outcome>>
     ELSE
       /\ sess' = [sess EXCEPT ![r].isRefreshing = TRUE]
       /\ sent' = [sent EXCEPT ![r] = s.tokens]
       /\ pc' = [pc EXCEPT ![r] = "refreshing"]
       /\ seenInFlight' = [seenInFlight EXCEPT ![r] = InFlight]
       /\ UNCHANGED <<orig, route, cred, outcome>>
  /\ UNCHANGED <<store, issued, expiring, invalidated, afterInval, loggedOut>>

\* waitForRefresh: the 300 ms poll of the waiter's own req.session.isRefreshing;
\* when it reads false, loginRequired runs again at once.  It is no disjunct
\* of Next: NoWaiter below shows that no request ever reaches "waiting".
waitForRefresh(r) ==
  /\ pc[r] = "waiting"
  /\ ~sess[r].isRefreshing
  /\ pc' = [pc EXCEPT ![r] = "loaded"]
  /\ UNCHANGED <<store, sess, orig, route, issued, expiring, sent, cred,
                 outcome, seenInFlight, invalidated, afterInval, loggedOut>>

\* The refreshAccessToken callback without err: clear the flag, put the new
\* tokens in the session object, call req.session.save.
RefreshOk(r) ==
  /\ pc[r] = "refreshing"
  /\ issued < MaxTok
  /\ issued' = issued + 1
  /\ sess' = [sess EXCEPT ![r].isRefreshing = FALSE, ![r].tokens = issued + 1]
  /\ orig' = [orig EXCEPT ![r] = sess'[r]]
  /\ pc' = [pc EXCEPT ![r] = "saving"]
  /\ UNCHANGED <<store, route, expiring, sent, cred, outcome, invalidated, afterInval, seenInFlight, loggedOut>>

\* The refreshAccessToken callback with err: clear the flag, req.session.destroy.
RefreshErr(r) ==
  /\ pc[r] = "refreshing"
  /\ sess' = Finished(sess, r)
  /\ orig' = Finished(orig, r)
  /\ pc' = [pc EXCEPT ![r] = "destroying"]
  /\ UNCHANGED <<store, route, issued, expiring, sent, cred, outcome,
                 invalidated, afterInval, seenInFlight, loggedOut>>

DestroyDoneNoAnswer(r) ==
  /\ pc[r] = "destroying"
  /\ route[r] = "api"
  /\ store' = NoSession
  /\ invalidated' = TRUE
  /\ UNCHANGED <<sess, orig, pc, route, issued, expiring, sent, cred, outcome,
                 afterInval, seenInFlight, loggedOut>>

\* The store has removed the document; the destroy callback answers
\* 'Session expired' (or redirects to /login).
DestroyDone(r) ==
  /\ pc[r] = "destroying"
  /\ route[r] = "api"
  /\ store' = NoSession
  /\ outcome' = [outcome EXCEPT ![r] = "RefreshFailed"]
  /\ invalidated' = TRUE
  /\ Retire(r)
  /\ UNCHANGED <<sess, orig, issued, expiring, sent, cred, afterInval, seenInFlight,
                 loggedOut>>

\* req.session.save succeeded (the store upserts the document): next().
SaveOk(r) ==
  /\ pc[r] = "saving"
  /\ store' = sess[r]
  /\ cred' = [cred EXCEPT ![r] = sess[r].tokens]
  /\ outcome' = [outcome EXCEPT ![r] = "next"]
  /\ EndResponse(r, sess[r])
  /\ UNCHANGED <<issued, expiring, sent, invalidated, afterInval, seenInFlight, loggedOut>>

\* req.session.save failed: 'Failed to save session' (or redirect to /login).
SaveErr(r) ==
  /\ pc[r] = "saving"
  /\ outcome' = [outcome EXCEPT ![r] = "SaveFailed"]
  /\ EndResponse(r, sess[r])
  /\ UNCHANGED <<store, issued, expiring, sent, cred,
                 invalidated, afterInval, seenInFlight, loggedOut>>

\* The save at the end of a response whose handler changed the session.
EndSave(r) ==
  /\ pc[r] = "ending"
  /\ store' = sess[r]
  /\ invalidated' = IF route[r] = "callback" /\ sess[r].tokens # NoTok
                     THEN FALSE ELSE invalidated
  /\ loggedOut' = IF route[r] = "callback" /\ sess[r].tokens # NoTok
                   THEN FALSE ELSE loggedOut
  /\ Retire(r)
  /\ sess' = Finished(sess, r)
  /\ UNCHANGED <<orig, issued, expiring, sent, cred, outcome, afterInval, seenInFlight>>

\* The files uploaded: "invalid" is no JSON or has no web.client_id; "ok" is
\* a complete client_secret.json; "unusable" has web.client_id but no
\* web.redirect_uris.
Uploads == {"invalid", "ok", "unusable"}

\* POST /login: a file that parses and has web.client_id is stored in the
\* session; every branch leaves a flash message.
PostLogin(r, file) ==
  /\ pc[r] = "loaded"
  /\ route[r] = "upload"
  /\ EndResponse(r, [sess[r] EXCEPT !.secret = IF file # "invalid" THEN file ELSE @,
                                    !.flash = IF file # "invalid" THEN "success" ELSE "error"])
  /\ UNCHANGED <<store, issued, expiring, sent, cred, outcome,
                 invalidated, afterInval, seenInFlight, loggedOut>>

\* GET /login: the flash message is shown and cleared.
GetLogin(r) ==
  /\ pc[r] = "loaded"
  /\ route[r] = "loginpage"
  /\ EndResponse(r, [sess[r] EXCEPT !.flash = "none"])
  /\ UNCHANGED <<store, issued, expiring, sent, cred, outcome,
                 invalidated, afterInval, seenInFlight, loggedOut>>

\* GET /oauth2callback up to the await of getToken; without a client the call
\* on null throws inside the try and the catch leaves a flash message; an
\* exception of getOauth2Client, outside the try, rejects the handler's
\* promise and the request gets no response and no session save.
OAuthCallback(r) ==
  /\ pc[r] = "loaded"
  /\ route[r] = "callback"
  /\ IF getOauth2Client(sess[r]) = "null"
     THEN EndResponse(r, [sess[r] EXCEPT !.flash = "error"])
     ELSE IF getOauth2Client(sess[r]) = "throws"
     THEN EndResponse(r, orig[r])
     ELSE /\ pc' = [pc EXCEPT ![r] = "exchanging"]
          /\ UNCHANGED <<sess, orig, route>>
  /\ UNCHANGED <<store, issued, expiring, sent, cred, outcome,
                 invalidated, afterInval, seenInFlight, loggedOut>>

\* getToken resolved: the tokens go into the session object, redirect.
ExchangeOk(r) ==
  /\ pc[r] = "exchanging"
  /\ issued < MaxTok
  /\ issued' = issued + 1
  /\ EndResponse(r, [sess[r] EXCEPT !.tokens = issued + 1])
  /\ UNCHANGED <<store, expiring, sent, cred, outcome,
                 invalidated, afterInval, seenInFlight, loggedOut>>

\* getToken rejected: flash message, redirect to /login.
ExchangeErr(r) ==
  /\ pc[r] = "exchanging"
  /\ EndResponse(r, [sess[r] EXCEPT !.flash = "error"])
  /\ UNCHANGED <<store, issued, expiring, sent, cred, outcome,
                 invalidated, afterInval, seenInFlight, loggedOut>>

\* GET /logout: req.session.destroy.
Logout(r) ==
  /\ pc[r] = "loaded"
  /\ route[r] = "logout"
  /\ sess' = Finished(sess, r)
  /\ orig' = Finished(orig, r)
  /\ pc' = [pc EXCEPT ![r] = "destroying"]
  /\ UNCHANGED <<store, route, issued, expiring, sent, cred, outcome,
                 invalidated, afterInval, seenInFlight, loggedOut>>

\* The store has removed the document; the logout callback redirects.
LogoutDone(r) ==
  /\ pc[r] = "destroying"
  /\ route[r] = "logout"
  /\ store' = NoSession
  /\ loggedOut' = TRUE
  /\ Retire(r)
  /\ UNCHANGED <<sess, orig, issued, expiring, sent, cred, outcome,
                 invalidated, afterInval, seenInFlight>>

\* Time passes: an issued token comes within the expiry threshold.
Expire(t) ==
  /\ t \in 1..issued
  /\ t \notin expiring
  /\ expiring' = expiring \cup {t}
  /\ UNCHANGED <<store, sess, orig, pc, route, issued, sent, cred, outcome,
                 invalidated, afterInval, seenInFlight, loggedOut>>

\* The server starts with an empty store; a session that has uploaded its
\* client secret and completed the code exchange holds token 1.
AuthInit ==
  /\ store \in {NoSession, LoggedIn}
  /\ issued = IF store.live THEN 1 ELSE 0
  /\ sess = [r \in Req |-> NoSession]
  /\ orig = [r \in Req |-> NoSession]
  /\ pc = [r \in Req |-> "idle"]
  /\ route = [r \in Req |-> "api"]
  /\ expiring = {}
  /\ sent = [r \in Req |-> NoTok]
  /\ cred = [r \in Req |-> NoTok]
  /\ outcome = [r \in Req |-> "none"]
  /\ seenInFlight = [r \in Req |-> {}]
  /\ invalidated = FALSE
  /\ loggedOut = FALSE
  /\ afterInval = [r \in Req |-> FALSE]

\* No request is being served.
AuthIdle ==
  /\ store = NoSession
  /\ issued = 0
  /\ sess = [r \in Req |-> NoSession]
  /\ orig = [r \in Req |-> NoSession]
  /\ pc = [r \in Req |-> "idle"]
  /\ route = [r \in Req |-> "api"]
  /\ expiring = {}
  /\ sent = [r \in Req |-> NoTok]
  /\ cred = [r \in Req |-> NoTok]
  /\ outcome = [r \in Req |-> "none"]
  /\ seenInFlight = [r \in Req |-> {}]
  /\ invalidated = FALSE
  /\ loggedOut = FALSE
  /\ afterInval = [r \in Req |-> FALSE]

\* The days a call made on day t with daysBack up to MaxHorizon can ask for,
\* and one day either side.
NearWindow(t) == {AddDays(t, -o) : o \in 0..(MaxHorizon + 1)}

Todays == {<<2024, 3, 2>>, <<2024, 1, 2>>}

NearInit ==
  /\ today \in Todays
  /\ daysBack \in 0..MaxHorizon
  /\ nUp \in [NearWindow(today) -> Resp]
  /\ nPc = "start"
  /\ nI = 0
  /\ nFetched = <<>>
  /\ nResult = null

NearIdle ==
  /\ today = <<2024, 3, 2>>
  /\ daysBack = 0
  /\ nUp = [d \in {} |-> "404"]
  /\ nPc = "idle"
  /\ nI = 0
  /\ nFetched = <<>>
  /\ nResult = null

\* The start dates of the ranges asked for, and an end date from two days
\* before the start date to MaxDays - 1 days after it.
StartDays == {<<2024, 2, 28>>, <<2023, 12, 31>>, <<2023, 2, 27>>}

SeriesInit ==
  /\ hMode \in {"series", "summary"}
  /\ \E d \in StartDays, k \in (-2)..(MaxDays - 1) :
        /\ hStart = FormatDate(d)
        /\ hEnd = FormatDate(AddDays(d, k))
  /\ hUp \in [1..MaxDays -> UpAnswers]
  /\ hPc = "start"
  /\ hDates = <<>>
  /\ hIdx = 0
  /\ chartData = EmptyChart
  /\ dailyStats = [k \in {} |-> 0]
  /\ hFetched = <<>>
  /\ hOutcome = "none"

SeriesIdle ==
  /\ hMode = "series"
  /\ hStart = <<>>
  /\ hEnd = <<>>
  /\ hUp = [k \in {} |-> "404"]
  /\ hPc = "idle"
  /\ hDates = <<>>
  /\ hIdx = 0
  /\ chartData = EmptyChart
  /\ dailyStats = [k \in {} |-> 0]
  /\ hFetched = <<>>
  /\ hOutcome = "none"

\* The path and query strings the cached route is called with.
CacheArgs == {<<<<"a">>, <<"c">>, <<"d">>>>,
              <<<<"a">>, <<"b", "-", "c">>, <<"d">>>>,
              <<<<"a", "-", "b">>, <<"c">>, <<"d">>>>}

\* The clock moves by a millisecond, or by a millisecond less than the cache
\* duration.
TickSteps == {1, CACHE_DURATION_MS - 1}

UpVersions == {"v1", "v2"}

CacheInit ==
  /\ apiCache = [k \in {} |-> NoEntry]
  /\ now = 0
  /\ ticks = 0
  /\ upVer = "v1"
  /\ cPc = [r \in CReq |-> "idle"]
  /\ cArgs = [r \in CReq |-> <<>>]
  /\ cFound = [r \in CReq |-> "none"]
  /\ last = NoResponse

\* The raw stats extractMetrics is called with: ratios between 0 and 1 (in
\* units of 0.00001) or missing, up to MaxErrs delivery errors, up to MaxIps
\* IP reputations.
Ratios == {0, 5340, 100000}
ErrRatios == {0, 2504, 60000, 100000}
IpEntries == [reputation : {"", "low", "HIGH"}, hasSample : BOOLEAN]

SeqsUpTo(S, n) == UNION {[1..k -> S] : k \in 0..n}

NoMetrics == [date |-> "", spam_rate |-> 0, delivery_errors_rate |-> 0,
              user_reported_spam_rate |-> 0, overall_reputation |-> "NONE",
              true_ip_reputation |-> "NONE"]

MetricsInit ==
  /\ mRaw \in [domainReputation : {"", "HIGH"},
                spamRatio : Ratios \cup {NoNumber},
                userReportedSpamRatio : Ratios \cup {NoNumber},
                deliveryErrors : SeqsUpTo(ErrRatios, MaxErrs),
                ipReputations : SeqsUpTo(IpEntries, MaxIps)]
  /\ mPc = "raw"
  /\ mOut = NoMetrics

MetricsIdle ==
  /\ mRaw = RawStats[2]
  /\ mPc = "idle"
  /\ mOut = NoMetrics

\* The requests to the two uncached routes.
DirectRequests ==
  {<<"stat", <<a[1]>>>> : a \in CacheArgs} \cup {<<"historical_stats", a>> : a \in CacheArgs}

DirectInit ==
  /\ dPc = [r \in CReq |-> "idle"]
  /\ dRoute = [r \in CReq |-> "none"]
  /\ dArgs = [r \in CReq |-> <<>>]
  /\ direct = NoDirect

\* The credential lifecycle of one session.
Init == AuthInit /\ NearIdle /\ SeriesIdle /\ CacheInit /\ MetricsIdle /\ DirectInit
Next ==
  \/ \E r \in Req, rt \in Routes : Load(r, rt) /\ UNCHANGED <<nearVars, seriesVars, cacheVars, metricVars, directVars>>
  \/ \E r \in Req : loginRequired(r) /\ UNCHANGED <<nearVars, seriesVars, cacheVars, metricVars, directVars>>
  \/ \E r \in Req : RefreshOk(r) /\ UNCHANGED <<nearVars, seriesVars, cacheVars, metricVars, directVars>>
  \/ \E r \in Req : RefreshErr(r) /\ UNCHANGED <<nearVars, seriesVars, cacheVars, metricVars, directVars>>
  \/ \E r \in Req : DestroyDone(r) /\ UNCHANGED <<nearVars, seriesVars, cacheVars, metricVars, directVars>>
  \/ \E r \in Req : SaveOk(r) /\ UNCHANGED <<nearVars, seriesVars, cacheVars, metricVars, directVars>>
  \/ \E r \in Req : SaveErr(r) /\ UNCHANGED <<nearVars, seriesVars, cacheVars, metricVars, directVars>>
  \/ \E r \in Req : EndSave(r) /\ UNCHANGED <<nearVars, seriesVars, cacheVars, metricVars, directVars>>
  \/ \E r \in Req, file \in Uploads : PostLogin(r, file) /\ UNCHANGED <<nearVars, seriesVars, cacheVars, metricVars, directVars>>
  \/ \E r \in Req : GetLogin(r) /\ UNCHANGED <<nearVars, seriesVars, cacheVars, metricVars, directVars>>
  \/ \E r \in Req : OAuthCallback(r) /\ UNCHANGED <<nearVars, seriesVars, cacheVars, metricVars, directVars>>
  \/ \E r \in Req : ExchangeOk(r) /\ UNCHANGED <<nearVars, seriesVars, cacheVars, metricVars, directVars>>
  \/ \E r \in Req : ExchangeErr(r) /\ UNCHANGED <<nearVars, seriesVars, cacheVars, metricVars, directVars>>
  \/ \E r \in Req : Logout(r) /\ UNCHANGED <<nearVars, seriesVars, cacheVars, metricVars, directVars>>
  \/ \E r \in Req : LogoutDone(r) /\ UNCHANGED <<nearVars, seriesVars, cacheVars, metricVars, directVars>>
  \/ \E t \in Tok : Expire(t) /\ UNCHANGED <<nearVars, seriesVars, cacheVars, metricVars, directVars>>
Spec == Init /\ [][Next]_vars

\* The middleware runs once the session is loaded, and every refresh call,
\* session save and session destroy that was started completes.
Fairness ==
  \A r \in Req :
    /\ WF_vars(loginRequired(r) /\ UNCHANGED <<nearVars, seriesVars, cacheVars, metricVars, directVars>>)
    /\ WF_vars((RefreshOk(r) \/ RefreshErr(r)) /\ UNCHANGED <<nearVars, seriesVars, cacheVars, metricVars, directVars>>)
    /\ WF_vars((SaveOk(r) \/ SaveErr(r)) /\ UNCHANGED <<nearVars, seriesVars, cacheVars, metricVars, directVars>>)
    /\ WF_vars(DestroyDone(r) /\ UNCHANGED <<nearVars, seriesVars, cacheVars, metricVars, directVars>>)
SpecLive == Init /\ [][Next]_vars /\ Fairness

\* One call of findNearestAvailableStat.
NearestInit == AuthIdle /\ NearInit /\ SeriesIdle /\ CacheInit /\ MetricsIdle /\ DirectInit
NearestNext ==
  \/ NearestStart /\ UNCHANGED <<authVars, seriesVars, cacheVars, metricVars, directVars>>
  \/ NearestFetch /\ UNCHANGED <<authVars, seriesVars, cacheVars, metricVars, directVars>>
  \/ NearestResume /\ UNCHANGED <<authVars, seriesVars, cacheVars, metricVars, directVars>>
SpecNearest == NearestInit /\ [][NearestNext]_vars

\* One call of getHistoricalStats or processSingleDomainStats.
HistInit == AuthIdle /\ NearIdle /\ SeriesInit /\ CacheInit /\ MetricsIdle /\ DirectInit
HistNext ==
  \/ HistStart /\ UNCHANGED <<authVars, nearVars, cacheVars, metricVars, directVars>>
  \/ SeriesFetch /\ UNCHANGED <<authVars, nearVars, cacheVars, metricVars, directVars>>
  \/ SeriesResume /\ UNCHANGED <<authVars, nearVars, cacheVars, metricVars, directVars>>
  \/ SummaryFetch /\ UNCHANGED <<authVars, nearVars, cacheVars, metricVars, directVars>>
  \/ SummaryResume /\ UNCHANGED <<authVars, nearVars, cacheVars, metricVars, directVars>>
  \/ SummaryAfterSeries /\ UNCHANGED <<authVars, nearVars, cacheVars, metricVars, directVars>>
SpecSeries == HistInit /\ [][HistNext]_vars

\* A call of the normalizer.
NormalizeInit == AuthIdle /\ NearIdle /\ SeriesIdle /\ CacheInit /\ MetricsInit /\ DirectInit
NormalizeNext == Normalize /\ UNCHANGED <<authVars, nearVars, seriesVars, cacheVars, directVars>>
SpecMetrics == NormalizeInit /\ [][NormalizeNext]_vars

\* Requests to the nearest-stat route and the historical-series route.
RoutesInit == AuthIdle /\ NearIdle /\ SeriesIdle /\ CacheInit /\ MetricsIdle /\ DirectInit
RoutesNext ==
  \/ \E r \in CReq, q \in DirectRequests :
        DirectFetch(r, q[1], q[2]) /\ UNCHANGED <<authVars, nearVars, seriesVars, metricVars>>
  \/ \E r \in CReq : DirectAnswer(r) /\ UNCHANGED <<authVars, nearVars, seriesVars, metricVars>>
  \/ \E d \in TickSteps : Tick(d) /\ UNCHANGED <<authVars, nearVars, seriesVars, metricVars, directVars>>
  \/ \E v \in UpVersions : UpstreamChange(v) /\ UNCHANGED <<authVars, nearVars, seriesVars, metricVars, directVars>>
SpecRoutes == RoutesInit /\ [][RoutesNext]_vars

\* Requests to the cached route.
CachedInit == AuthIdle /\ NearIdle /\ SeriesIdle /\ CacheInit /\ MetricsIdle /\ DirectInit
CachedNext ==
  \/ \E r \in CReq, args \in CacheArgs :
        CacheLookup(r, args) /\ UNCHANGED <<authVars, nearVars, seriesVars, metricVars, directVars>>
  \/ \E r \in CReq : CacheStore(r) /\ UNCHANGED <<authVars, nearVars, seriesVars, metricVars, directVars>>
  \/ \E d \in TickSteps : Tick(d) /\ UNCHANGED <<authVars, nearVars, seriesVars, metricVars, directVars>>
  \/ \E v \in UpVersions : UpstreamChange(v) /\ UNCHANGED <<authVars, nearVars, seriesVars, metricVars, directVars>>
SpecCache == CachedInit /\ [][CachedNext]_vars

\* No request finds isRefreshing set: the flag is true in a session object
\* only between the refresher's own assignment and its callback, and no save
\* happens in between, so the store document never holds it.
NoWaiter == \A r \in Req : pc[r] # "waiting" /\ ~store.isRefreshing

\* ------------------------------------------------------------ credential claims

\* C1: concurrent callers of one session with an expiring credential make
\* exactly one refreshAccessToken call: no request calls it with a token for
\* which another request's call is in flight.
C1_OneRefreshPerExpiry ==
  \A r \in Req : sent[r] # NoTok =>
    \A q \in seenInFlight[r] : sent[q] # sent[r]

\* C2: concurrent callers that found the same credential expiring end alike:
\* all proceed with the same refreshed credential, or all fail with
\* RefreshFailed; none proceeds with the old credential.
C2_UniformOutcome ==
  \A r \in Req : \A q \in seenInFlight[r] :
    (sent[q] = sent[r] /\ outcome[r] # "none" /\ outcome[q] # "none") =>
      /\ outcome[r] = outcome[q]
      /\ outcome[r] \in {"next", "RefreshFailed"}
      /\ cred[r] = cred[q]
      /\ (outcome[r] = "next" => cred[r] # sent[r])

C4_SingleFlight ==
  /\ Cardinality(InFlight) <= 1
  /\ \A r \in Req : sess[r].isRefreshing <=> r \in InFlight

\* C5: after a failed refresh (the refresher ends with RefreshFailed) the
\* session holds no credential, and every acquisition that arrives fails with
\* AuthRequired without a refresh call, until a code exchange stores a
\* credential again.
C5_InvalidatedUntilExchange ==
  /\ \A r \in Req : (pc[r] = "done" /\ sent[r] # NoTok) =>
        outcome[r] \in {"next", "SaveFailed", "RefreshFailed"}
  /\ invalidated => store.tokens = NoTok
  /\ \A r \in Req : (afterInval[r] /\ outcome[r] # "none") =>
        (outcome[r] = "AuthRequired" /\ sent[r] = NoTok)

\* ------------------------------------------------------------ cache claims

\* The entry a step finds under a key before it acts.
EntryAt(key) == IF key \in DOMAIN apiCache THEN apiCache[key] ELSE NoEntry

C6_Step ==
  /\ (last' # last /\ last'.kind = "hit") =>
       /\ EntryAt(last'.key).has
       /\ now - EntryAt(last'.key).timestamp < 15 * 60 * 1000
       /\ last'.payload = EntryAt(last'.key).data
       /\ apiCache' = apiCache
       /\ cPc' = cPc
       /\ (last.kind # "none" /\ last.key = last'.key) => last'.payload = last.payload
  /\ \A r \in CReq :
       /\ (cPc[r] = "idle" /\ cPc'[r] = "computing") =>
            /\ ~(/\ EntryAt(CacheKey(cArgs'[r])).has
                 /\ now - EntryAt(CacheKey(cArgs'[r])).timestamp < 15 * 60 * 1000)
            /\ apiCache' = apiCache
            /\ last' = last
       /\ (cPc[r] = "computing" /\ cPc'[r] = "idle") =>
            /\ last'.kind = "store"
            /\ last'.key = CacheKey(cArgs[r])
            /\ last'.payload = DomainData(cArgs[r], upVer)
            /\ CacheKey(cArgs[r]) \in DOMAIN apiCache'
            /\ apiCache'[CacheKey(cArgs[r])] =
                 [has |-> TRUE, data |-> last'.payload, timestamp |-> now]

\* C6: a lookup made while the entry stored under its key is younger than 15
\* minutes is answered with that entry's payload (so two such lookups of one
\* stored entry get the identical payload), starts no computation and leaves
\* the cache alone; every other lookup computes, and its completion
\* overwrites the entry with the result and the time of completion.
C6_CacheWithinTtl == [][C6_Step]_vars

\* A lookup answered from an entry one millisecond short of 15 minutes old,
\* while a lookup that found an entry exactly 15 minutes old is recomputing.
C6_Witness ==
  /\ last.kind = "hit"
  /\ now - EntryAt(last.key).timestamp = CACHE_DURATION_MS - 1
  /\ \E r \in CReq :
       /\ cPc[r] = "computing"
       /\ cFound[r] = "stale"
       /\ now - EntryAt(CacheKey(cArgs[r])).timestamp = CACHE_DURATION_MS

\* ------------------------------------------------------------ nearest-stat claims

\* The offsets, among a set of them, of the days for which the upstream has data.
WithData(offsets) == {o \in offsets : nUp[AddDays(today, -o)] = "data"}

Least(S) == CHOOSE o \in S : \A p \in S : o <= p

\* What a finished call returned, for the offsets it is to have walked.
NearestReturns(offsets) ==
  IF WithData(offsets) = {}
  THEN ~nResult.present
  ELSE /\ nResult.present
       /\ nResult.day = AddDays(today, -Least(WithData(offsets)))
       /\ ParseDate(nResult.date) = nResult.day

\* C7 as stated: the call returns the most recent day with data among the
\* h days that start 2 days before the reference day (offsets 2..h+1), with
\* its date field set, and absent only when none of them has data.
C7_NearestOfHDays ==
  nPc = "done" => NearestReturns(2..(daysBack + 1))

\* C7 as amended: the days walked are those from 2 to h days before the
\* reference day (h - 1 days, none when h < 2); the call returns the most
\* recent of them that has data, with its date field set to that day, and
\* absent only when none of them has data.
C7_NearestUpToHDaysBack ==
  nPc = "done" => NearestReturns(2..daysBack)

\* A call that skipped a day without data and returned an older day.
C7_Witness ==
  /\ nPc = "done"
  /\ daysBack = 3
  /\ nResult.present
  /\ nResult.day = AddDays(today, -daysBack)
  /\ nResult.date = <<"2", "0", "2", "4", "-", "0", "2", "-", "2", "8">>

\* C8: the first fetch is for the day 2 days before the reference day, each
\* further fetch is for the day before the previous one, no fetch follows a
\* day that had data, and a call makes at most h fetches.
C8_FetchOrder ==
  /\ Len(nFetched) >= 1 => nFetched[1] = AddDays(today, -2)
  /\ \A k \in 1..(Len(nFetched) - 1) :
        /\ nFetched[k + 1] = PrevDay(nFetched[k])
        /\ nUp[nFetched[k]] # "data"
  /\ nPc = "done" /\ nResult.present => nUp[nFetched[Len(nFetched)]] = "data"
  /\ Len(nFetched) <= daysBack

\* A call that stopped at the second day it fetched.
C8_Witness ==
  /\ nPc = "done"
  /\ nResult.present
  /\ Len(nFetched) = 2

\* ------------------------------------------------------------ series claims

\* The number of a calendar day, counted from the civil calendar's rules
\* (years from March, 153 days in five months), not by stepping day by day.
DayNumber(t) ==
  LET y == IF t[2] <= 2 THEN t[1] - 1 ELSE t[1]
      mp == IF t[2] <= 2 THEN t[2] + 9 ELSE t[2] - 3
  IN 365 * y + (y \div 4) - (y \div 100) + (y \div 400)
       + ((153 * mp + 2) \div 5) + t[3] - 1

RangeStart == ParseDate(hStart)
RangeEnd == ParseDate(hEnd)

\* The range asked for has its end date before its start date.
Reversed == ~SameOrBefore(RangeStart, RangeEnd)

\* C9: for a range with startDate <= endDate, the finished series has five
\* sequences of the same length, the number of calendar days from startDate
\* to endDate inclusive, and a day the upstream had no stats for holds null
\* in all four value sequences.
C9_SeriesLengths ==
  (hPc = "done" /\ hMode = "series" /\ ~Reversed) =>
    LET n == DayNumber(RangeEnd) - DayNumber(RangeStart) + 1 IN
      /\ Len(chartData.labels) = n
      /\ Len(chartData.userReportedSpam) = n
      /\ Len(chartData.domainReputation) = n
      /\ Len(chartData.ipReputation) = n
      /\ Len(chartData.deliveryErrors) = n
      /\ \A i \in 1..n : RespOf(hUp[i]) # "data" =>
            /\ chartData.userReportedSpam[i] = Nul
            /\ chartData.domainReputation[i] = Nul
            /\ chartData.ipReputation[i] = Nul
            /\ chartData.deliveryErrors[i] = Nul

\* The series for 2024-02-28..2024-03-01 with its second day absent.
C9_Witness ==
  /\ hPc = "done"
  /\ hMode = "series"
  /\ chartData.labels = << FormatDate(<<2024, 2, 28>>), FormatDate(<<2024, 2, 29>>),
                           FormatDate(<<2024, 3, 1>>) >>
  /\ chartData.domainReputation = <<Num(4), Nul, Nul>>
  /\ hUp[2] = "404"

Ordinals == {Num(1), Num(2), Num(3), Num(4)}

\* The category of a day's raw stats, as the series reads it.
DomainCategory(a) == UpperOrNone(RawOf(a).domainReputation)

\* C11: every entry of domainReputation and ipReputation of a series is null
\* or one of the ordinals 1..4 (BAD=1, LOW=2, MEDIUM=3, HIGH=4), and a day
\* whose domain category is NONE or missing holds null.
C11_OrdinalOrAbsent ==
  hMode = "series" =>
    /\ \A i \in 1..Len(chartData.domainReputation) :
         /\ chartData.domainReputation[i] \in Ordinals \cup {Nul}
         /\ (RespOf(hUp[i]) = "data" /\ DomainCategory(hUp[i]) = "NONE") =>
              chartData.domainReputation[i] = Nul
         /\ (RespOf(hUp[i]) = "data" /\ DomainCategory(hUp[i]) = "HIGH") =>
              chartData.domainReputation[i] = Num(4)
    /\ \A i \in 1..Len(chartData.ipReputation) :
         chartData.ipReputation[i] \in Ordinals \cup {Nul}

\* ------------------------------------------------------------ normalizer claims

RECURSIVE Total(_, _)
Total(errs, n) == IF n = 0 THEN 0 ELSE errs[n] + Total(errs, n - 1)

\* The sum of the day's delivery-error ratios, in units of 0.00001.
ErrorTotal == Total(mRaw.deliveryErrors, Len(mRaw.deliveryErrors))

\* A percentage field (units of 0.01) is within [0, 100].
InPercentRange(x) == x >= 0 /\ x <= 10000

\* x is 100 times the ratio r, rounded to two decimals.
IsPercentOf(x, r) == 10 * x <= r + 5 /\ r + 5 < 10 * x + 10

\* C12 as stated: with every single ratio in [0,1], each of spam_rate,
\* user_reported_spam_rate and delivery_errors_rate is in [0,100], and
\* delivery_errors_rate is 100 times the sum of the delivery-error ratios.
C12_PercentagesInRange ==
  mPc = "done" =>
    /\ InPercentRange(mOut.spam_rate)
    /\ InPercentRange(mOut.user_reported_spam_rate)
    /\ InPercentRange(mOut.delivery_errors_rate)
    /\ IsPercentOf(mOut.delivery_errors_rate, ErrorTotal)

\* C12 as amended: spam_rate and user_reported_spam_rate are in [0,100];
\* delivery_errors_rate is 100 times the sum of the delivery-error ratios
\* (rounded to two decimals), which is in [0,100] exactly when that sum
\* rounds to at most 1, and is at most 100 times the number of entries.
C12_DeliveryRateIsSum ==
  mPc = "done" =>
    /\ InPercentRange(mOut.spam_rate)
    /\ InPercentRange(mOut.user_reported_spam_rate)
    /\ IsPercentOf(mOut.delivery_errors_rate, ErrorTotal)
    /\ mOut.delivery_errors_rate >= 0
    /\ mOut.delivery_errors_rate <= 10000 * Len(mRaw.deliveryErrors)
    /\ InPercentRange(mOut.delivery_errors_rate) <=> ErrorTotal + 5 < 100010

\* Two delivery errors of ratio 0.6 each give a delivery_errors_rate of 120.
C12_Witness ==
  /\ mPc = "done"
  /\ mRaw.deliveryErrors = <<60000, 60000>>
  /\ mOut.delivery_errors_rate = 12000
  /\ mRaw.spamRatio = 100000
  /\ mOut.spam_rate = 10000

\* The entries of the raw IP reputations that have a sample IP.
Sampled == {i \in 1..Len(mRaw.ipReputations) : mRaw.ipReputations[i].hasSample}

\* C13: true_ip_reputation is the uppercased category (NONE when missing) of
\* the first entry that has a sample IP, whatever that category is, and NONE
\* when no entry has one.
C13_FirstSampledEntry ==
  mPc = "done" =>
    IF Sampled = {} THEN mOut.true_ip_reputation = "NONE"
    ELSE LET first == CHOOSE i \in Sampled : \A j \in Sampled : i <= j
         IN mOut.true_ip_reputation = UpperOrNone(mRaw.ipReputations[first].reputation)

\* ------------------------------------------------------------ summary claims

\* The series and the summary of one range have both been built.
BothBuilt == hMode = "summary" /\ hPc = "done" /\ chartData # EmptyChart

\* C14: for the same domain, range and upstream data, daily_stats of the
\* summary has an entry for a date exactly when the day was present upstream,
\* which is when the series holds a number for userReportedSpam and
\* deliveryErrors at the day's index; absent days have no entry; and the
\* entry's rates and reputations are the values of the series at that index,
\* the reputations through the ordinal mapping.
C14_SummaryMatchesSeries ==
  BothBuilt =>
    /\ \A k \in DOMAIN dailyStats : \E i \in 1..Len(chartData.labels) : chartData.labels[i] = k
    /\ \A i \in 1..Len(chartData.labels) :
         LET k == chartData.labels[i] IN
           /\ k \in DOMAIN dailyStats <=> RespOf(hUp[i]) = "data"
           /\ k \in DOMAIN dailyStats <=>
                (chartData.userReportedSpam[i] # Nul /\ chartData.deliveryErrors[i] # Nul)
           /\ k \in DOMAIN dailyStats =>
                /\ chartData.userReportedSpam[i] = Num(dailyStats[k].user_reported_spam_rate)
                /\ chartData.deliveryErrors[i] = Num(dailyStats[k].delivery_errors_rate)
                /\ chartData.domainReputation[i] = RepOrdinal(dailyStats[k].overall_reputation)
                /\ chartData.ipReputation[i] = RepOrdinal(dailyStats[k].true_ip_reputation)

\* Series and summary of 2023-12-31..2024-01-02 whose second day is absent
\* upstream: the summary has entries for the first and the third day only.
C14_Witness ==
  /\ BothBuilt
  /\ hUp = <<"raw1", "404", "raw3">>
  /\ DOMAIN dailyStats = {FormatDate(<<2023, 12, 31>>), FormatDate(<<2024, 1, 2>>)}
  /\ dailyStats[FormatDate(<<2023, 12, 31>>)].overall_reputation = "HIGH"
  /\ chartData.domainReputation[1] = Num(4)

\* ------------------------------------------------------------ failure claims

\* What the series holds at index i for a day the upstream has stats for.
DayValues(i) ==
  LET m == ExtractMetrics(RawOf(hUp[i]), "") IN
    << Num(m.user_reported_spam_rate), RepOrdinal(m.overall_reputation),
       RepOrdinal(m.true_ip_reputation), Num(m.delivery_errors_rate) >>

SeriesAt(i) ==
  << chartData.userReportedSpam[i], chartData.domainReputation[i],
     chartData.ipReputation[i], chartData.deliveryErrors[i] >>

\* C15: a not-found or bad-request answer and any other upstream failure
\* alike make the day absent: the series of the whole range completes, holds
\* null in all four value sequences at the index of a failed day and only
\* there, and holds the other days' values.
C15_FailureIsAbsence ==
  (hMode = "series" /\ hPc = "done") =>
    /\ hOutcome = "ok"
    /\ Len(chartData.labels) = Len(hDates)
    /\ \A i \in 1..Len(hDates) :
         IF hUp[i] \in {"404", "400", "error"}
         THEN SeriesAt(i) = <<Nul, Nul, Nul, Nul>>
         ELSE SeriesAt(i) = DayValues(i) /\ SeriesAt(i) # <<Nul, Nul, Nul, Nul>>

\* A three-day series whose second day failed with an error that is neither
\* a 404 nor a 400, between two days with stats.
C15_Witness ==
  /\ hMode = "series"
  /\ hPc = "done"
  /\ hUp = <<"raw1", "error", "raw1">>
  /\ Len(hDates) = 3
  /\ SeriesAt(1) = SeriesAt(3)
  /\ SeriesAt(2) = <<Nul, Nul, Nul, Nul>>
  /\ chartData.userReportedSpam[1] = Num(12)

\* ------------------------------------------------------------ routing claims

\* Request r starts fetching from the upstream for the route and arguments
\* of the latest response, less than CACHE_DURATION_MS after that response.
RepeatFetches(r) ==
  /\ dPc[r] = "idle"
  /\ dPc'[r] = "fetching"
  /\ direct.route = dRoute'[r]
  /\ direct.args = dArgs'[r]
  /\ now - direct.at < CACHE_DURATION_MS

\* C16: the nearest-stat route and the historical-series route go through
\* the response cache: a request repeated with the same key within the TTL
\* starts no upstream fetch.
C16_RepeatServedFromCache == [][\A r \in CReq : ~RepeatFetches(r)]_vars

\* ------------------------------------------------------------ ordering claims

Acquires(r) == pc[r] = "loaded" /\ route[r] = "api" /\ pc'[r] # "loaded"

Refused == {"AuthRequired", "ClientMisconfigured"}

\* C19: loginRequired on a session without a credential fails with
\* AuthRequired, and on a session whose client_secret_json is absent or
\* cannot be used it fails with ClientMisconfigured, answered like
\* AuthRequired; either way no refresh call is made and the session is left
\* as it was.
C19_RefusedWithoutCredential ==
  [][\A r \in Req :
       (Acquires(r) /\ (sess[r].tokens = NoTok \/ sess[r].secret # "ok"))
       => /\ outcome'[r] = IF sess[r].tokens = NoTok THEN "AuthRequired"
                            ELSE "ClientMisconfigured"
          /\ outcome'[r] \in Refused
          /\ pc'[r] = "done"
          /\ sent' = sent
          /\ issued' = issued
          /\ store' = store]_vars

C21_KeyedByTuple ==
  last.kind = "hit" =>
    <<last.payload[1], last.payload[2], last.payload[3]>> = last.args

\* C22: once a logout has completed, the session document holds no
\* credential until a code exchange stores one, also when a refresh call of
\* the session was in flight at the logout and saves the session afterwards.
C22_NoCredentialAfterLogout == loggedOut => store.tokens = NoTok

====
